---- MODULE Spec2Model ----
(***************************************************************************)
(* lambda-dialogflow: the handler registry, the Agent facade and the       *)
(* HandleRequest dispatch of src/lambdadialogflow.go.                      *)
(*                                                                         *)
(* A Go pointer (and a Go map, which may be nil) is a sequence of length   *)
(* 0 (nil) or 1 (the value it points to).  Dereferencing nil is a fault:   *)
(* the invocation panics and HandleRequest never returns.                  *)
(***************************************************************************)
EXTENDS Integers, Sequences, FiniteSets, TLC

VARIABLES
    handlerMap,   \* var handlerMap: action -> WebhookHandler (a nil handler is Nil)
    regLog,       \* history: the Register calls made so far, in order
    serving,      \* Start() has handed control to the invocation loop
    pc,           \* where the current HandleRequest invocation stands
    body,         \* req.Body of the current invocation
    req,          \* Agent.req: the decoded WebhookRequest
    res,          \* Agent.res: the WebhookResponse under construction
    handler,      \* webhookHandler: the handler the lookup returned
    resp,         \* what HandleRequest returned: response and error
    calls,        \* history: the mutator calls of the running handler, in order
    got,          \* history: the handler's last getter call and its outcome
    lookups,      \* history: reads of handlerMap in this invocation
    invoked,      \* history: handler invocations in this invocation
    buf,          \* bytes.Buffer: the serialized response, once marshalled
    marshals      \* history: serializations of res in this invocation

vars == <<handlerMap, regLog, serving, pc, body, req, res, handler, resp,
          calls, got, lookups, invoked, buf, marshals>>

----------------------------------------------------------------------------
(* Bounds and input sets                                                   *)

MaxRegister == 2
MaxCalls == 3

\* Pointers and nil maps.
Nil == << >>
Ptr(x) == <<x>>
IsNil(p) == Len(p) = 0
Deref(p) == p[1]

\* Actions the application registers, and actions a request may carry.
RegActions == {"", "hello"}
\* Handler functions of the application; Nil is a nil WebhookHandler.
Handlers == {Ptr("h1"), Ptr("h2"), Nil}

\* structpb.Value: the kind that is set and its content.
StringValue(s) == <<"string", s>>
NumberValue(n) == <<"number", n>>
BoolValue(b) == <<"bool", b>>
\* A Value whose Kind is nil (only reachable by writing through Response()).
NoKind == <<"nokind">>

ParamName == "name"
\* Names a handler asks for: one the request may carry, one it never carries.
LookupNames == {ParamName, "age"}
\* A structpb.Struct field map over the parameter name, for the two sources.
ParamMaps == {<< >>} \cup
             { [k \in {ParamName} |-> v] :
                 v \in {StringValue("Ada"), NumberValue(7), BoolValue(TRUE)} }
PayloadMaps == {<< >>} \cup
               { [k \in {ParamName} |-> v] :
                   v \in {StringValue("Bob"), NumberValue(9), BoolValue(FALSE)} }

Texts == {"Hi", "Bye"}
ContextNames == {"greeted", "asked"}
Lifespans == {0, 5}
PayloadNames == {"k1", "k2"}
PayloadValues == {"v1", "v2"}

----------------------------------------------------------------------------
(* The inbound body and jsonpb.Unmarshal                                   *)

\* A body: whether its text is JSON at all, whether every field it carries
\* belongs to the WebhookRequest schema, and the fields it carries (an absent
\* JSON field is Nil).
MkBody(wellformed, known, qr, odir) ==
    [wellformed |-> wellformed, known |-> known,
     queryResult |-> qr, originalDetectIntentRequest |-> odir]

MkQueryResult(action, parameters) ==
    [action |-> action, parameters |-> parameters]

\* Bodies that fail decoding: not JSON, or JSON with a field the schema lacks.
BadBodies == { MkBody(FALSE, FALSE, Nil, Nil), MkBody(TRUE, FALSE, Nil, Nil) }

\* The originalDetectIntentRequest objects a body may carry: none, one without
\* payload, one with a payload mapping.
OdirJson(maps) ==
    {Nil, Ptr([payload |-> Nil])} \cup { Ptr([payload |-> Ptr(m)]) : m \in maps }

\* Bodies of the dispatch specification: with and without queryResult, the
\* action absent (it decodes to ""), registered or not, no parameters.
DispatchBodies ==
    BadBodies
    \cup { MkBody(TRUE, TRUE, Nil, Nil) }
    \cup { MkBody(TRUE, TRUE, Ptr(MkQueryResult(a, Nil)), o) :
             a \in {Nil, Ptr("hello"), Ptr("bye")},
             o \in {Nil,
                    Ptr([payload |->
                           Ptr([k \in {ParamName} |-> StringValue("Bob")])])} }

\* Bodies of the agent specification: a request for "hello", and one body
\* that fails decoding.
AgentBodies ==
    { MkBody(FALSE, FALSE, Nil, Nil),
      MkBody(TRUE, TRUE, Ptr(MkQueryResult(Ptr("hello"), Nil)), Nil) }

\* Bodies of the parameter specification: action "hello", every shape of
\* parameters and of originalDetectIntentRequest.payload.
ParamBodies ==
    { MkBody(TRUE, TRUE, Ptr(MkQueryResult(Ptr("hello"), p)), o) :
        p \in {Nil} \cup { Ptr(m) : m \in ParamMaps },
        o \in OdirJson(PayloadMaps) }

\* A JSON object of struct type decodes to a Struct whose Fields is a map (an
\* empty one for {}); an absent field leaves the pointer nil.
UnmarshalStruct(j) ==
    IF IsNil(j) THEN Nil ELSE Ptr([Fields |-> Ptr(Deref(j))])

\* jsonpb.Unmarshal into a fresh WebhookRequest: the error, or the message.
\* Absent scalar fields keep the zero value, absent messages stay nil.
Unmarshal(b) ==
    IF ~b.wellformed \/ ~b.known
    THEN [err |-> TRUE, msg |-> Nil]
    ELSE [err |-> FALSE,
          msg |-> Ptr(
            [QueryResult |->
               IF IsNil(b.queryResult) THEN Nil
               ELSE LET q == Deref(b.queryResult)
                    IN Ptr([Action |-> IF IsNil(q.action) THEN ""
                                       ELSE Deref(q.action),
                            Parameters |-> UnmarshalStruct(q.parameters)]),
             OriginalDetectIntentRequest |->
               IF IsNil(b.originalDetectIntentRequest) THEN Nil
               ELSE Ptr([Payload |->
                          UnmarshalStruct(
                            Deref(b.originalDetectIntentRequest).payload)])])]

----------------------------------------------------------------------------
(* The response and jsonpb.Marshal                                         *)

\* &df.WebhookResponse{}
EmptyResponse ==
    [FulfillmentText |-> "", OutputContexts |-> << >>, Payload |-> Nil]

\* JSON values, tagged.
JStr(s) == <<"str", s>>
JNum(n) == <<"num", n>>
JBool(b) == <<"bool", b>>
JArr(elems) == <<"arr", elems>>
JObj(members) == <<"obj", members>>
Member(k, v) == <<k, v>>

\* jsonpb writes the keys of a map in sorted order.
KeyOrder == <<"bad", "k1", "k2">>
SortedKeys(m) == SelectSeq(KeyOrder, LAMBDA k : k \in DOMAIN m)

\* A Value with no kind set cannot be marshalled ("nil Value").
ValueMarshals(v) == v # NoKind
MarshalValue(v) ==
    CASE v[1] = "string" -> JStr(v[2])
      [] v[1] = "number" -> JNum(v[2])
      [] v[1] = "bool" -> JBool(v[2])

\* A Struct is written as the JSON object of its fields.
StructMarshals(s) ==
    IsNil(s.Fields) \/ \A k \in DOMAIN Deref(s.Fields) : ValueMarshals(Deref(s.Fields)[k])
MarshalStruct(s) ==
    IF IsNil(s.Fields) THEN JObj(<< >>)
    ELSE LET m == Deref(s.Fields)
             ks == SortedKeys(m)
         IN JObj([i \in 1..Len(ks) |-> Member(ks[i], MarshalValue(m[ks[i]]))])

\* A Context: fields at their zero value are not emitted.
MarshalContext(c) ==
    JObj((IF c.Name # "" THEN <<Member("name", JStr(c.Name))>> ELSE << >>)
         \o (IF c.LifespanCount # 0
             THEN <<Member("lifespanCount", JNum(c.LifespanCount))>> ELSE << >>))

\* marshaler.Marshal(&buf, w.res): fields in field-number order
\* (fulfillmentText, payload, outputContexts), zero values not emitted.
MarshalFails(r) == ~IsNil(r.Payload) /\ ~StructMarshals(Deref(r.Payload))
Marshal(r) ==
    JObj((IF r.FulfillmentText # ""
          THEN <<Member("fulfillmentText", JStr(r.FulfillmentText))>> ELSE << >>)
         \o (IF ~IsNil(r.Payload)
             THEN <<Member("payload", MarshalStruct(Deref(r.Payload)))>> ELSE << >>)
         \o (IF Len(r.OutputContexts) > 0
             THEN <<Member("outputContexts",
                           JArr([i \in 1..Len(r.OutputContexts) |->
                                   MarshalContext(r.OutputContexts[i])]))>>
             ELSE << >>))

\* events.APIGatewayProxyResponse and the error returned with it.  Body is the
\* empty string (Nil) or one JSON document.
\* Faulty variant of ErrorResponse: the status is returned with a nil error.
ErrorResponseNilError(status, err) ==
    Ptr([StatusCode |-> status, Body |-> Nil, Headers |-> Nil,
         IsBase64Encoded |-> FALSE, err |-> Nil])

ErrorResponse(status, err) ==
    Ptr([StatusCode |-> status, Body |-> Nil, Headers |-> Nil,
         IsBase64Encoded |-> FALSE, err |-> Ptr(err)])
OkResponse(doc) ==
    Ptr([StatusCode |-> 200, Body |-> Ptr(doc),
         Headers |-> Ptr([h \in {"Content-Type"} |-> "application/json"]),
         IsBase64Encoded |-> FALSE, err |-> Nil])

----------------------------------------------------------------------------
(* Agent: accessors and mutators                                           *)

\* Nil-safe GetFields() of a *Struct, and indexing a (possibly nil) Go map:
\* an absent key yields a nil *Value.
GetFields(s) == IF IsNil(s) THEN Nil ELSE Deref(s).Fields
Index(m, k) ==
    IF IsNil(m) THEN Nil
    ELSE IF k \in DOMAIN Deref(m) THEN Ptr(Deref(m)[k]) ELSE Nil

\* Nil-safe GetStringValue() / GetNumberValue() of a *Value: the zero value
\* when another kind is set.
GetStringValue(f) ==
    IF ~IsNil(f) /\ Deref(f)[1] = "string" THEN Deref(f)[2] ELSE ""
GetNumberValue(f) ==
    IF ~IsNil(f) /\ Deref(f)[1] = "number" THEN Deref(f)[2] ELSE 0

\* What a call yields: a value, or a nil-pointer dereference.
Ok(v) == [fault |-> FALSE, val |-> v]
Fault == [fault |-> TRUE, val |-> Nil]

\* w.req.QueryResult.Action: a field read through the QueryResult pointer.
Action(rq) ==
    IF IsNil(rq.QueryResult) THEN Fault
    ELSE Ok(Deref(rq.QueryResult).Action)

\* getField: parameters first, then originalDetectIntentRequest.payload.  Both
\* w.req.QueryResult.Parameters and w.req.OriginalDetectIntentRequest.Payload
\* are field reads through a pointer that may be nil.
getField(rq, name) ==
    IF IsNil(rq.QueryResult) THEN Fault
    ELSE LET f == Index(GetFields(Deref(rq.QueryResult).Parameters), name)
         IN IF ~IsNil(f) THEN Ok(f)
            ELSE IF IsNil(rq.OriginalDetectIntentRequest) THEN Fault
            ELSE Ok(Index(GetFields(Deref(rq.OriginalDetectIntentRequest).Payload),
                          name))

\* Go values returned to the handler carry their type.
GoString(s) == <<"string", s>>
GoFloat64(n) == <<"float64", n>>

GetStringParam(rq, name) ==
    LET f == getField(rq, name)
    IN IF f.fault THEN Fault
       ELSE IF ~IsNil(f.val) THEN Ok(GoString(GetStringValue(f.val)))
       ELSE Ok(GoString(""))

GetNumberParam(rq, name) ==
    LET f == getField(rq, name)
    IN IF f.fault THEN Fault
       ELSE IF ~IsNil(f.val) THEN Ok(GoFloat64(GetNumberValue(f.val)))
       ELSE Ok(GoFloat64(0))

\* Faulty variant of AddPayload: the payload container is made anew on every call.
AddPayloadFreshContainer(r, name, value) ==
    [r EXCEPT !.Payload = Ptr([Fields |-> Ptr([k \in {name} |-> StringValue(value)])])]

AddPayload(r, name, value) ==
    LET stringValue == StringValue(value)
    IN IF ~IsNil(r.Payload) /\ ~IsNil(Deref(r.Payload).Fields)
       THEN LET m == Deref(Deref(r.Payload).Fields)
            IN [r EXCEPT !.Payload =
                  Ptr([Fields |-> Ptr([k \in DOMAIN m \cup {name} |->
                                         IF k = name THEN stringValue ELSE m[k]])])]
       ELSE [r EXCEPT !.Payload =
                  Ptr([Fields |-> Ptr([k \in {name} |-> stringValue])])]

Say(r, someText) == [r EXCEPT !.FulfillmentText = someText]

\* Faulty variant of SetContext: an entry of the same name is replaced.
SetContextByName(r, contextname, lifetime) ==
    [r EXCEPT !.OutputContexts =
        Append(SelectSeq(@, LAMBDA c : c.Name # contextname),
               [Name |-> contextname, LifespanCount |-> lifetime])]

SetContext(r, contextname, lifetime) ==
    [r EXCEPT !.OutputContexts =
        Append(@, [Name |-> contextname, LifespanCount |-> lifetime])]

\* A handler writing through Response(): it stores a Value with no kind
\* under the key "bad" of the payload, which jsonpb cannot marshal.
PutNilValue(r) ==
    IF ~IsNil(r.Payload) /\ ~IsNil(Deref(r.Payload).Fields)
    THEN LET m == Deref(Deref(r.Payload).Fields)
         IN [r EXCEPT !.Payload =
               Ptr([Fields |-> Ptr([k \in DOMAIN m \cup {"bad"} |->
                                      IF k = "bad" THEN NoKind ELSE m[k]])])]
    ELSE [r EXCEPT !.Payload = Ptr([Fields |-> Ptr([k \in {"bad"} |-> NoKind])])]

\* Faulty variant of MapAssign: an action that has an entry keeps it.
MapAssignKeepsFirst(m, action, h) ==
    [a \in DOMAIN m \cup {action} |-> IF a \in DOMAIN m THEN m[a] ELSE h]

\* handlerMap[action] = handler
MapAssign(m, action, h) ==
    [a \in DOMAIN m \cup {action} |-> IF a = action THEN h ELSE m[a]]
\* handlerMap[action]: a nil handler for an absent key
MapLookup(m, action) == IF action \in DOMAIN m THEN m[action] ELSE Nil

\* newAgent: the request it is given and a fresh, empty response.
newAgent(webhookRequest) == [req |-> webhookRequest, res |-> EmptyResponse]

----------------------------------------------------------------------------
(* Operations                                                              *)

Init ==
    /\ handlerMap = << >>
    /\ regLog = << >>
    /\ serving = FALSE
    /\ pc = "Idle"
    /\ body = MkBody(TRUE, TRUE, Nil, Nil)
    /\ req = [QueryResult |-> Nil, OriginalDetectIntentRequest |-> Nil]
    /\ res = EmptyResponse
    /\ handler = Nil
    /\ resp = Nil
    /\ calls = << >>
    /\ got = Nil
    /\ lookups = 0
    /\ invoked = 0
    /\ buf = Nil
    /\ marshals = 0

\* Register(action, handler), called by the application before Start().
Register(action, h) ==
    /\ ~serving
    /\ Len(regLog) < MaxRegister
    /\ handlerMap' = MapAssign(handlerMap, action, h)
    /\ regLog' = Append(regLog, <<action, h>>)
    /\ UNCHANGED <<serving, pc, body, req, res, handler, resp, calls, got,
                   lookups, invoked, buf, marshals>>

\* Start(): from here on the runtime calls HandleRequest, one invocation at a
\* time.
Start ==
    /\ ~serving
    /\ serving' = TRUE
    /\ UNCHANGED <<handlerMap, regLog, pc, body, req, res, handler, resp, calls,
                   got, lookups, invoked, buf, marshals>>

\* Faulty variant of Decode: the Unmarshal error is not returned, HandleRequest goes on
\* with the request as far as it was filled.
DecodeContinues(b) ==
    /\ serving
    /\ pc \in {"Idle", "Responded", "Panicked"}
    /\ body' = b
    /\ handler' = Nil
    /\ calls' = << >>
    /\ got' = Nil
    /\ lookups' = 0
    /\ invoked' = 0
    /\ buf' = Nil
    /\ marshals' = 0
    /\ LET u == Unmarshal(b)
           w == newAgent(IF u.err
                         THEN [QueryResult |-> Nil,
                               OriginalDetectIntentRequest |-> Nil]
                         ELSE Deref(u.msg))
       IN /\ pc' = "Decoded"
          /\ resp' = Nil
          /\ req' = w.req
          /\ res' = w.res
    /\ UNCHANGED <<handlerMap, regLog, serving>>

\* HandleRequest is entered with body b: jsonpb.Unmarshal, the 400 return on
\* an error, newAgent otherwise.
Decode(b) ==
    /\ serving
    /\ pc \in {"Idle", "Responded", "Panicked"}
    /\ body' = b
    /\ handler' = Nil
    /\ calls' = << >>
    /\ got' = Nil
    /\ lookups' = 0
    /\ invoked' = 0
    /\ buf' = Nil
    /\ marshals' = 0
    /\ LET u == Unmarshal(b)
       IN IF u.err
          THEN /\ pc' = "Responded"
               /\ resp' = ErrorResponse(400, "unable to decode webhook request")
               /\ UNCHANGED <<req, res>>
          ELSE LET w == newAgent(Deref(u.msg))
               IN /\ pc' = "Decoded"
                  /\ resp' = Nil
                  /\ req' = w.req
                  /\ res' = w.res
    /\ UNCHANGED <<handlerMap, regLog, serving>>

\* webhookHandler := handlerMap[w.Action()], the 404 return when it is nil,
\* the call of the handler otherwise.
Route ==
    /\ pc = "Decoded"
    /\ LET a == Action(req)
       IN IF a.fault
          THEN /\ pc' = "Panicked"
               /\ UNCHANGED <<handler, resp, lookups, invoked>>
          ELSE LET h == MapLookup(handlerMap, a.val)
               IN /\ lookups' = lookups + 1
                  /\ handler' = h
                  /\ IF IsNil(h)
                     THEN /\ pc' = "Responded"
                          /\ resp' = ErrorResponse(404, "no handler defined for action")
                          /\ UNCHANGED invoked
                     ELSE /\ pc' = "Routed"
                          /\ invoked' = invoked + 1
                          /\ UNCHANGED resp
    /\ UNCHANGED <<handlerMap, regLog, serving, body, req, res, calls, got, buf,
                   marshals>>

\* The running handler calls a mutator of its Agent.
Mutate(newRes, call) ==
    /\ pc = "Routed"
    /\ Len(calls) < MaxCalls
    /\ res' = newRes
    /\ calls' = Append(calls, call)
    /\ got' = Nil
    /\ UNCHANGED <<handlerMap, regLog, serving, pc, body, req, handler, resp,
                   lookups, invoked, buf, marshals>>

HandlerSay(someText) == Mutate(Say(res, someText), <<"Say", someText>>)

HandlerSetContext(contextname, lifetime) ==
    Mutate(SetContext(res, contextname, lifetime),
           <<"SetContext", contextname, lifetime>>)

HandlerAddPayload(name, value) ==
    Mutate(AddPayload(res, name, value), <<"AddPayload", name, value>>)

HandlerPutNilValue == Mutate(PutNilValue(res), <<"Response">>)

\* The running handler calls a getter of its Agent: the value comes back, or
\* the nil dereference ends the invocation.
Get(fn, name, out) ==
    /\ pc = "Routed"
    /\ got' = Ptr([fn |-> fn, name |-> name, out |-> out])
    /\ pc' = IF out.fault THEN "Panicked" ELSE pc
    /\ UNCHANGED <<handlerMap, regLog, serving, body, req, res, handler, resp,
                   calls, lookups, invoked, buf, marshals>>

HandlerGetStringParam(name) ==
    Get("GetStringParam", name, GetStringParam(req, name))

HandlerGetNumberParam(name) ==
    Get("GetNumberParam", name, GetNumberParam(req, name))

\* webhookHandler(w) returns.
HandlerReturn ==
    /\ pc = "Routed"
    /\ pc' = "Handled"
    /\ got' = Nil
    /\ UNCHANGED <<handlerMap, regLog, serving, body, req, res, handler, resp,
                   calls, lookups, invoked, buf, marshals>>

\* Faulty variant of Encode: a failed Marshal is tried again instead of returned.
EncodeRetries ==
    /\ pc = "Handled"
    /\ marshals' = marshals + 1
    /\ IF MarshalFails(res)
       THEN /\ pc' = "Handled"
            /\ res' = [res EXCEPT !.Payload = Nil]
            /\ UNCHANGED <<buf, resp>>
       ELSE /\ pc' = "Encoded"
            /\ buf' = Ptr(Marshal(res))
            /\ UNCHANGED <<resp, res>>
    /\ UNCHANGED <<handlerMap, regLog, serving, body, req, handler, calls,
                   got, lookups, invoked>>

\* marshaler.Marshal(&buf, w.res) and the 500 return on an error.
Encode ==
    /\ pc = "Handled"
    /\ marshals' = marshals + 1
    /\ IF MarshalFails(res)
       THEN /\ pc' = "Responded"
            /\ resp' = ErrorResponse(500, "nil Value")
            /\ UNCHANGED buf
       ELSE /\ pc' = "Encoded"
            /\ buf' = Ptr(Marshal(res))
            /\ UNCHANGED resp
    /\ UNCHANGED <<handlerMap, regLog, serving, body, req, res, handler, calls,
                   got, lookups, invoked>>

\* The 200 return: the buffer as body, the Content-Type header.
Respond ==
    /\ pc = "Encoded"
    /\ pc' = "Responded"
    /\ resp' = OkResponse(Deref(buf))
    /\ UNCHANGED <<handlerMap, regLog, serving, body, req, res, handler, calls,
                   got, lookups, invoked, buf, marshals>>

\* Registration of any handlers, then dispatch of any bodies.  The handlers
\* here say a text, write through Response(), read parameters and return.
Next ==
    \/ \E a \in RegActions, h \in Handlers : Register(a, h)
    \/ Start
    \/ \E b \in DispatchBodies : Decode(b)
    \/ Route
    \/ \E t \in Texts : HandlerSay(t)
    \/ HandlerPutNilValue
    \/ \E n \in LookupNames : HandlerGetStringParam(n)
    \/ \E n \in LookupNames : HandlerGetNumberParam(n)
    \/ HandlerReturn
    \/ Encode
    \/ Respond

Spec == Init /\ [][Next]_vars

\* One handler registered for "hello", which calls any mutators in any order.
NextAgent ==
    \/ Register("hello", Ptr("h1"))
    \/ Start
    \/ \E b \in AgentBodies : Decode(b)
    \/ Route
    \/ \E t \in Texts : HandlerSay(t)
    \/ \E n \in ContextNames, l \in Lifespans : HandlerSetContext(n, l)
    \/ \E n \in PayloadNames, v \in PayloadValues : HandlerAddPayload(n, v)
    \/ HandlerPutNilValue
    \/ HandlerReturn
    \/ Encode
    \/ Respond

SpecAgent == Init /\ [][NextAgent]_vars

\* One handler registered for "hello"; requests of every parameter shape
\* dispatched to a handler that reads parameters.
NextParams ==
    \/ Register("hello", Ptr("h1"))
    \/ Start
    \/ \E b \in ParamBodies : Decode(b)
    \/ Route
    \/ \E n \in LookupNames : HandlerGetStringParam(n)
    \/ \E n \in LookupNames : HandlerGetNumberParam(n)
    \/ HandlerReturn
    \/ Encode
    \/ Respond

SpecParams == Init /\ [][NextParams]_vars

----------------------------------------------------------------------------
(* What the claims speak about                                             *)

\* The body decodes: it is JSON and matches the webhook-request schema.
BodyDecodes(b) == b.wellformed /\ b.known
HasQueryResult(b) == ~IsNil(b.queryResult)
\* The action a body carries; a body without one has the empty action.
BodyAction(b) ==
    IF HasQueryResult(b) /\ ~IsNil(Deref(b.queryResult).action)
    THEN Deref(Deref(b.queryResult).action)
    ELSE ""
\* The parameters and the originalDetectIntentRequest.payload mapping a body
\* carries; an absent mapping has no names.
BodyParameters(b) ==
    IF HasQueryResult(b) /\ ~IsNil(Deref(b.queryResult).parameters)
    THEN Deref(Deref(b.queryResult).parameters)
    ELSE << >>
BodyOriginalPayload(b) ==
    IF ~IsNil(b.originalDetectIntentRequest)
       /\ ~IsNil(Deref(b.originalDetectIntentRequest).payload)
    THEN Deref(Deref(b.originalDetectIntentRequest).payload)
    ELSE << >>

\* The handler given in the last Register call for action a, Nil without one.
RegIndices(a) == { i \in 1..Len(regLog) : regLog[i][1] = a }
LastRegistered(a) ==
    IF RegIndices(a) = {} THEN Nil
    ELSE regLog[CHOOSE i \in RegIndices(a) : \A j \in RegIndices(a) : j <= i][2]

\* HandleRequest has returned; the response and error it returned.
Returned == pc = "Responded" /\ ~IsNil(resp)
Status == Deref(resp).StatusCode
\* An invocation is under way or over, and its Agent exists.
AgentLive ==
    \/ pc \in {"Decoded", "Routed", "Handled", "Encoded", "Panicked"}
    \/ pc = "Responded" /\ BodyDecodes(body)
\* A step that enters HandleRequest.
Enters == pc \in {"Idle", "Responded", "Panicked"} /\ pc' \in {"Decoded", "Responded"}

\* The calls of one mutator among the handler's calls, in call order.
CallsOf(op) == SelectSeq(calls, LAMBDA c : c[1] = op)
\* The member of a JSON object with key k: Nil when it has none.
JsonMember(obj, k) ==
    LET ms == SelectSeq(obj[2], LAMBDA m : m[1] = k)
    IN IF Len(ms) = 0 THEN Nil ELSE Ptr(ms[1][2])

----------------------------------------------------------------------------
(* Claims                                                                  *)

\* C2: an invocation whose body fails decoding has returned status 400, and in
\* it handlerMap was never read and no handler was invoked, whatever is
\* registered.
C2_DecodeFailureIs400 ==
    (pc # "Idle" /\ ~BodyDecodes(body)) =>
        /\ Returned
        /\ Status = 400
        /\ lookups = 0
        /\ invoked = 0
        /\ IsNil(handler)

\* C2 witness: a 400 was returned for an undecodable body while a handler is
\* registered.
C2_Witness ==
    /\ Returned
    /\ ~BodyDecodes(body)
    /\ Status = 400
    /\ \E a \in DOMAIN handlerMap : ~IsNil(handlerMap[a])

\* C3: an invocation whose body decodes, with or without a queryResult, and
\* whose action has no (non-nil) registered handler returns status 404
\* without invoking a handler.
C3_NoHandlerIs404 ==
    (/\ pc \notin {"Idle", "Decoded"}
     /\ BodyDecodes(body)
     /\ IsNil(LastRegistered(BodyAction(body)))) =>
        /\ Returned
        /\ Status = 404
        /\ invoked = 0

\* C10: what HandleRequest returns has a non-nil error exactly when its status
\* is not 200; 400, 404 and 500 come with an empty body and no headers, 200
\* with the serialized response and Content-Type: application/json.
C10_ErrorIffNot200 ==
    Returned =>
        LET r == Deref(resp) IN
        /\ r.StatusCode \in {200, 400, 404, 500}
        /\ ~IsNil(r.err) <=> r.StatusCode # 200
        /\ r.StatusCode # 200 => IsNil(r.Body) /\ IsNil(r.Headers)
        /\ r.StatusCode = 200 =>
              /\ r.Body = Ptr(Marshal(res))
              /\ ~IsNil(r.Headers)
              /\ DOMAIN Deref(r.Headers) = {"Content-Type"}
              /\ Deref(r.Headers)["Content-Type"] = "application/json"

\* C10 witness: a 500 was returned, with its error and no body.
C10_Witness ==
    /\ Returned
    /\ Status = 500
    /\ ~IsNil(Deref(resp).err)
    /\ IsNil(Deref(resp).Body)

\* C5: Register(action, h) sets the entry of action to h and leaves every
\* other entry as it was; no step removes an entry; the handler a dispatch
\* invokes for an action is the one given in the last Register call for it.
C5_RegistryInv ==
    /\ DOMAIN handlerMap = { regLog[i][1] : i \in 1..Len(regLog) }
    /\ \A a \in DOMAIN handlerMap : handlerMap[a] = LastRegistered(a)
    /\ pc = "Routed" => /\ ~IsNil(handler)
                        /\ handler = LastRegistered(BodyAction(body))
    /\ (/\ pc \notin {"Idle", "Decoded"}
        /\ BodyDecodes(body)
        /\ HasQueryResult(body)
        /\ ~IsNil(LastRegistered(BodyAction(body)))) =>
            /\ invoked = 1
            /\ handler = LastRegistered(BodyAction(body))

C5_RegistryStep ==
    /\ DOMAIN handlerMap \subseteq DOMAIN handlerMap'
    /\ regLog' = regLog => handlerMap' = handlerMap
    /\ regLog' # regLog =>
          LET e == regLog'[Len(regLog')] IN
          /\ regLog' = Append(regLog, e)
          /\ DOMAIN handlerMap' = DOMAIN handlerMap \cup {e[1]}
          /\ handlerMap'[e[1]] = e[2]
          /\ \A a \in DOMAIN handlerMap \ {e[1]} : handlerMap'[a] = handlerMap[a]

\* C5: in every state the registry is what the last Register call per action
\* made it and a dispatch runs the last registered handler (C5_RegistryInv),
\* and every step keeps all entries, a Register step changing only its own
\* (C5_RegistryStep).
C5_LastRegisterWins == []C5_RegistryInv /\ [][C5_RegistryStep]_vars

\* C5 witness: a handler runs for an action that was registered twice with
\* different handlers, and it is the second one.
C5_Witness ==
    /\ pc = "Routed"
    /\ \E i, j \in 1..Len(regLog) :
         /\ i < j
         /\ regLog[i][1] = BodyAction(body)
         /\ regLog[j][1] = BodyAction(body)
         /\ ~IsNil(regLog[i][2])
         /\ regLog[i][2] # regLog[j][2]
         /\ handler = regLog[j][2]

\* C9: within an invocation the handler is invoked at most once, only after
\* the body decoded and the lookup found it; the response is serialized at
\* most once, only after the handler returned, and once whenever the handler
\* returned and HandleRequest went on; a return without a handler call is the
\* 400 of a decode failure or the 404 of a failed lookup; after the handler
\* returned HandleRequest ends with 200 or 500; the invocation only moves
\* forward through its phases and what it returned stays.
C9_PhaseInv ==
    /\ lookups <= 1 /\ invoked <= 1 /\ marshals <= 1
    /\ invoked = 1 => /\ BodyDecodes(body)
                      /\ lookups = 1
                      /\ ~IsNil(handler)
    /\ pc = "Routed" => invoked = 1 /\ marshals = 0
    /\ pc = "Handled" => invoked = 1 /\ marshals = 0
    /\ pc = "Encoded" => invoked = 1 /\ marshals = 1
    /\ marshals = 1 => invoked = 1 /\ pc \in {"Encoded", "Responded"}
    /\ Returned /\ invoked = 0 =>
          \/ Status = 400 /\ ~BodyDecodes(body) /\ lookups = 0
          \/ Status = 404 /\ BodyDecodes(body) /\ lookups = 1 /\ IsNil(handler)
    /\ Returned /\ invoked = 1 => Status \in {200, 500} /\ marshals = 1
    /\ pc = "Responded" => Returned
    /\ pc # "Responded" => IsNil(resp)

C9_PhaseStep ==
    \/ Enters
    \/ /\ <<pc, pc'>> \in { <<"Idle", "Idle">>,
                            <<"Decoded", "Routed">>, <<"Decoded", "Responded">>,
                            <<"Decoded", "Panicked">>,
                            <<"Routed", "Routed">>, <<"Routed", "Handled">>,
                            <<"Routed", "Panicked">>,
                            <<"Handled", "Encoded">>, <<"Handled", "Responded">>,
                            <<"Encoded", "Responded">> }
       /\ lookups' >= lookups /\ invoked' >= invoked /\ marshals' >= marshals
       /\ invoked' # invoked => pc = "Decoded" /\ pc' = "Routed"
       /\ marshals' # marshals => pc = "Handled"
       /\ pc' = "Handled" => pc = "Routed"

\* C9: every state has at most one lookup, handler call and serialization, in
\* the order decode, lookup, handler, serialization, return, with the 400 and
\* 404 returns as the only returns before the handler (C9_PhaseInv), and every
\* step moves the invocation forward, never repeating a phase (C9_PhaseStep).
C9_DispatchOrder == []C9_PhaseInv /\ [][C9_PhaseStep]_vars

\* C9 witness: an invocation went through every phase: its handler ran once,
\* its response was serialized once and it returned 200.
C9_Witness ==
    /\ Returned
    /\ Status = 200
    /\ invoked = 1
    /\ marshals = 1
    /\ Len(calls) > 0

\* The response a sequence of mutator calls builds from the empty one.
ApplyCall(r, c) ==
    CASE c[1] = "Say" -> Say(r, c[2])
      [] c[1] = "SetContext" -> SetContext(r, c[2], c[3])
      [] c[1] = "AddPayload" -> AddPayload(r, c[2], c[3])
      [] OTHER -> r
RECURSIVE ApplyCalls(_, _)
ApplyCalls(r, cs) ==
    IF cs = << >> THEN r ELSE ApplyCalls(ApplyCall(r, Head(cs)), Tail(cs))

\* C1: an invocation whose body decodes and carries an action that has a
\* registered handler, and whose handler uses only Say, SetContext and
\* AddPayload on the response, ends by returning status 200 with the body that
\* encodes those calls, applied to an empty response, and nothing else.
C1_Returns200WithMutations ==
    (/\ pc \in {"Responded", "Panicked"}
     /\ BodyDecodes(body)
     /\ HasQueryResult(body)
     /\ ~IsNil(LastRegistered(BodyAction(body)))
     /\ CallsOf("Response") = << >>) =>
        /\ Returned
        /\ Status = 200
        /\ Deref(resp).Body = Ptr(Marshal(ApplyCalls(EmptyResponse, calls)))

\* The outputContexts entries the handler's SetContext calls ask for.
ContextsCalled ==
    LET cs == CallsOf("SetContext")
    IN [i \in 1..Len(cs) |-> [Name |-> cs[i][2], LifespanCount |-> cs[i][3]]]
\* The outputContexts array of a serialized response, empty when it has none.
ContextsInBody(doc) ==
    LET a == JsonMember(doc, "outputContexts")
    IN IF IsNil(a) THEN << >> ELSE Deref(a)[2]

\* C6: the outputContexts of an invocation are exactly the entries of its
\* SetContext calls, one per call, in call order, duplicates of a name kept;
\* the body of the 200 response lists every one of them, in that order.
C6_ContextsAppended ==
    /\ AgentLive => res.OutputContexts = ContextsCalled
    /\ Returned /\ Status = 200 =>
          LET js == ContextsInBody(Deref(Deref(resp).Body))
          IN /\ Len(js) = Len(ContextsCalled)
             /\ \A i \in 1..Len(js) :
                  /\ JsonMember(js[i], "name") = Ptr(JStr(ContextsCalled[i].Name))
                  /\ JsonMember(js[i], "lifespanCount") =
                        IF ContextsCalled[i].LifespanCount = 0 THEN Nil
                        ELSE Ptr(JNum(ContextsCalled[i].LifespanCount))

\* C6 witness: a 200 response after two SetContext calls with the same name
\* and a third with another: three entries.
C6_Witness ==
    /\ Returned
    /\ Status = 200
    /\ Len(ContextsCalled) = 3
    /\ ContextsCalled[1].Name = ContextsCalled[2].Name
    /\ ContextsCalled[3].Name # ContextsCalled[1].Name
    /\ Len(ContextsInBody(Deref(Deref(resp).Body))) = 3

\* The value of the last AddPayload call for name n (there is one).
PayloadCallsFor(n) == SelectSeq(CallsOf("AddPayload"), LAMBDA c : c[2] = n)
LastPayloadValue(n) == PayloadCallsFor(n)[Len(PayloadCallsFor(n))][3]

\* C7: the payload maps every name an AddPayload call used to the string value
\* of the last call for it and holds no other name of the application; there
\* is no payload before the first write; a step that is an AddPayload call
\* leaves fulfillmentText and outputContexts as they were.
C7_PayloadInv ==
    AgentLive =>
        /\ calls = << >> => IsNil(res.Payload)
        /\ CallsOf("AddPayload") # << >> =>
              /\ ~IsNil(res.Payload)
              /\ ~IsNil(Deref(res.Payload).Fields)
              /\ \A n \in PayloadNames :
                   LET m == Deref(Deref(res.Payload).Fields) IN
                   IF PayloadCallsFor(n) = << >>
                   THEN n \notin DOMAIN m
                   ELSE n \in DOMAIN m /\ m[n] = StringValue(LastPayloadValue(n))

C7_PayloadStep ==
    (/\ Len(calls') = Len(calls) + 1
     /\ calls'[Len(calls')][1] = "AddPayload") =>
        /\ res'.FulfillmentText = res.FulfillmentText
        /\ res'.OutputContexts = res.OutputContexts

\* C7: in every state the payload holds, for each name used, the value of the
\* last AddPayload call (C7_PayloadInv), and an AddPayload step changes
\* neither fulfillmentText nor outputContexts (C7_PayloadStep).
C7_PayloadLastValue == []C7_PayloadInv /\ [][C7_PayloadStep]_vars

\* C7 witness: three AddPayload calls, the third overwriting the name of the
\* first with another value while the name of the second stays.
C7_Witness ==
    /\ pc = "Routed"
    /\ Len(calls) = 3
    /\ \A i \in 1..3 : calls[i][1] = "AddPayload"
    /\ calls[1][2] = calls[3][2]
    /\ calls[1][3] # calls[3][3]
    /\ calls[2][2] # calls[1][2]
    /\ DOMAIN Deref(Deref(res.Payload).Fields) = {calls[1][2], calls[2][2]}

\* The value a lookup of name n has to use: the one in parameters when the
\* name is there, else the one in originalDetectIntentRequest.payload, else
\* none.
SourceValue(n) ==
    IF n \in DOMAIN BodyParameters(body) THEN Ptr(BodyParameters(body)[n])
    ELSE IF n \in DOMAIN BodyOriginalPayload(body)
         THEN Ptr(BodyOriginalPayload(body)[n])
         ELSE Nil
\* What a getter has to return for a source value: the value when it is of
\* the getter's type, the zero value otherwise.
Expected(fn, v) ==
    IF fn = "GetStringParam"
    THEN GoString(IF ~IsNil(v) /\ Deref(v)[1] = "string" THEN Deref(v)[2] ELSE "")
    ELSE GoFloat64(IF ~IsNil(v) /\ Deref(v)[1] = "number" THEN Deref(v)[2] ELSE 0)

\* C4: a getter call for a name that is in neither parameters nor
\* originalDetectIntentRequest.payload (either mapping may be missing from the
\* request) returns the zero value of its type and does not fault.
C4_GettersTotal ==
    (/\ ~IsNil(got)
     /\ Deref(got).name \notin DOMAIN BodyParameters(body)
     /\ Deref(got).name \notin DOMAIN BodyOriginalPayload(body)) =>
        /\ ~Deref(got).out.fault
        /\ Deref(got).out.val = Expected(Deref(got).fn, Nil)

\* C8: a getter call returns what parameters holds for the name when the name
\* is there, else what originalDetectIntentRequest.payload holds for it, and
\* the zero value when that value is missing or of another type.
C8_ParametersFirst ==
    ~IsNil(got) =>
        /\ ~Deref(got).out.fault
        /\ Deref(got).out.val = Expected(Deref(got).fn, SourceValue(Deref(got).name))

====
